---- MODULE Spec2Model ----
(***************************************************************************)
(* A model of assume-role (src/src/main.rs): one run of main/async_main.    *)
(* Strings that the program inspects character by character (the role, the  *)
(* tags) are sequences of one-character strings; Option<T> is a sequence of *)
(* length 0 (None) or 1 (Some).                                             *)
(***************************************************************************)
EXTENDS Integers, Sequences, FiniteSets, TLC

VARIABLES
    args,       \* struct Args as parsed by clap (role, tag, policy, command)
    env,        \* the environment of this (parent) process
    pc,         \* the statement of async_main that runs next (or that failed)
    result,     \* "running", or what async_main returned: "ok" / "err"
    err,        \* the message of the returned anyhow::Error, as format! pieces
    request,    \* the AssumeRole request builder (role_arn, tags, policy)
    response,   \* Option: the AssumeRole output
    stdout,     \* lines printed by println!
    cmd,        \* Option: the tokio::process::Command (program, args, envs)
    child,      \* Option: the spawned child (its environment, its exit code)
    exit,       \* Option: the exit code of this process
    io          \* the external calls made so far, in order

vars == <<args, env, pc, result, err, request, response, stdout, cmd, child, exit, io>>

-----------------------------------------------------------------------------
(* Option<T> *)
None == <<>>
Some(v) == <<v>>
IsSome(o) == o # None
Unwrap(o) == o[1]

-----------------------------------------------------------------------------
(* Bounds and input sets *)

\* the most --tag options on a command line
MaxTags == 2

\* --role values: an ARN, the bare prefix without its colon, two names
Roles ==
    { <<"a","r","n",":","x">>, <<"a","r","n">>, <<"x","a","r","n",":">>, <<"x">> }

\* --tag values: a=b, a=b=c, bad, =b
TagStrings ==
    { <<"a","=","b">>, <<"a","=","b","=","c">>, <<"b","a","d">>, <<"=","b">> }

RECURSIVE SeqsUpTo(_, _)
SeqsUpTo(S, n) ==
    IF n = 0 THEN { <<>> }
    ELSE LET shorter == SeqsUpTo(S, n - 1)
         IN  shorter \cup { Append(s, x) : s \in { t \in shorter : Len(t) = n - 1 }, x \in S }

TagLists == SeqsUpTo(TagStrings, MaxTags)

\* --policy: absent or a path
Policies == { None, Some("policy.yml") }

\* the trailing command
Commands == { <<>>, <<"echo">>, <<"echo", "hi">>, <<"hi", "echo">> }

EnvVars == { "SHELL", "HOME", "AWS_ACCESS_KEY_ID", "AWS_SECRET_ACCESS_KEY", "AWS_SESSION_TOKEN" }

\* environments of the parent: SHELL set or not, a stale session token or not
Environments ==
    { [v \in EnvVars |->
          CASE v = "SHELL" -> sh
            [] v = "AWS_SESSION_TOKEN" -> tok
            [] v = "AWS_ACCESS_KEY_ID" -> Some("old-akid")
            [] v = "AWS_SECRET_ACCESS_KEY" -> None
            [] OTHER -> Some("/root")]
      : sh \in { None, Some("/bin/sh") }, tok \in { None, Some("stale-token") } }

\* what iam.get_role() can answer: an SdkError, no role, a role without arn, a role
ResolvedArn == <<"a","r","n",":","r">>
GetRoleOutcomes ==
    { [error |-> TRUE, role |-> None],
      [error |-> FALSE, role |-> None],
      [error |-> FALSE, role |-> Some(None)],
      [error |-> FALSE, role |-> Some(Some(ResolvedArn))] }

\* what reading the policy file can give
PolicyFileOutcomes == { "open_error", "yaml_error", "json_error", "ok" }

\* expiration timestamps, by calendar year
Expirations == { 2026, 10000 }

Credentials ==
    [ access_key_id : { None, Some("AKID") },
      secret_access_key : { None, Some("SECRET") },
      session_token : { None, Some("TOKEN") },
      expiration : { None } \cup { Some(y) : y \in Expirations } ]

\* what request.send() can answer: an SdkError, or an output with or without credentials
AssumeRoleOutcomes ==
    { [error |-> TRUE, credentials |-> None], [error |-> FALSE, credentials |-> None] }
    \cup { [error |-> FALSE, credentials |-> Some(c)] : c \in Credentials }

\* exit codes of the child
ExitCodes == { 0, 3 }

-----------------------------------------------------------------------------
(* Pure helpers *)

\* a faulty variant of StartsWith: str::contains in place of str::starts_with
Contains(s, prefix) ==
    \E k \in 0..Len(s) :
        /\ k + Len(prefix) <= Len(s)
        /\ \A i \in 1..Len(prefix) : s[k + i] = prefix[i]

\* str::starts_with
StartsWith(s, prefix) ==
    /\ Len(s) >= Len(prefix)
    /\ \A i \in 1..Len(prefix) : s[i] = prefix[i]

\* a faulty variant of ArnPrefix: the prefix without its colon
ArnPrefixNoColon == <<"a","r","n">>

\* line 79: "arn:"
ArnPrefix == <<"a","r","n",":">>

\* str::find for one character, scanning from index i
RECURSIVE Find(_, _, _)
Find(s, c, i) ==
    IF i > Len(s) THEN 0
    ELSE IF s[i] = c THEN i
    ELSE Find(s, c, i + 1)

\* a faulty variant of SplitOnce: str::rsplit_once, around the last c
RSplitOnce(s, c) ==
    LET hits == { k \in 1..Len(s) : s[k] = c }
    IN  IF hits = {} THEN None
        ELSE LET i == CHOOSE k \in hits : \A h \in hits : h <= k
             IN  Some(<<SubSeq(s, 1, i - 1), SubSeq(s, i + 1, Len(s))>>)

\* str::split_once: Some(<<before, after>>) around the first c, or None
SplitOnce(s, c) ==
    LET i == Find(s, c, 1)
    IN  IF i = 0 THEN None
        ELSE Some(<<SubSeq(s, 1, i - 1), SubSeq(s, i + 1, Len(s))>>)

\* anyhow!("illegal tag: '{tag}'"), the message's backquotes written as '
IllegalTag(tag) == <<"illegal tag: '">> \o tag \o <<"'">>

\* a faulty variant of TagLoop: a tag without = is skipped instead of returned as an error
RECURSIVE TagLoopSkip(_, _, _)
TagLoopSkip(tags, i, acc) ==
    IF i > Len(tags) THEN [tags |-> acc, error |-> None]
    ELSE LET kv == SplitOnce(tags[i], "=")
         IN  IF IsSome(kv)
             THEN TagLoopSkip(tags, i + 1,
                              Append(acc, [key |-> Unwrap(kv)[1], value |-> Unwrap(kv)[2]]))
             ELSE TagLoopSkip(tags, i + 1, acc)

\* the for loop over args.tag: the tags added, and the error it returned if any
RECURSIVE TagLoop(_, _, _)
TagLoop(tags, i, acc) ==
    IF i > Len(tags) THEN [tags |-> acc, error |-> None]
    ELSE LET kv == SplitOnce(tags[i], "=")
         IN  IF IsSome(kv)
             THEN TagLoop(tags, i + 1,
                          Append(acc, [key |-> Unwrap(kv)[1], value |-> Unwrap(kv)[2]]))
             ELSE [tags |-> acc, error |-> Some(IllegalTag(tags[i]))]

\* DateTime::fmt(Format::DateTime): RFC 3339 covers the years 1 to 9999 only
FmtDateTime(year) ==
    IF year >= 1 /\ year <= 9999 THEN Some(ToString(year)) ELSE None

\* a faulty variant of ChildEnv: Command::env_clear, nothing inherited from the parent
ChildEnvCleared(parent, envs) ==
    [v \in EnvVars |-> IF v \in DOMAIN envs THEN envs[v] ELSE None]

\* the environment a Command gives its child: the parent's, with the entries
\* set by Command::env on top
ChildEnv(parent, envs) ==
    [v \in EnvVars |-> IF v \in DOMAIN envs THEN envs[v] ELSE parent[v]]

\* f with key k set to value v (BTreeMap::insert)
Insert(f, k, v) ==
    [x \in (DOMAIN f) \cup {k} |-> IF x = k THEN v ELSE f[x]]

EmptyMap == [x \in {} |-> None]

\* a faulty variant of MissingCredential: the secret access key is not checked
MissingCredentialNoSecret(credentials) ==
    IF credentials = None
    THEN Some(<<"no credentials provided">>)
    ELSE IF Unwrap(credentials).access_key_id = None
    THEN Some(<<"no access_key_id provided">>)
    ELSE None

\* lines 134-144: the message of the first let-else that fails, if one does
MissingCredential(credentials) ==
    IF credentials = None
    THEN Some(<<"no credentials provided">>)
    ELSE IF Unwrap(credentials).access_key_id = None
    THEN Some(<<"no access_key_id provided">>)
    ELSE IF Unwrap(credentials).secret_access_key = None
    THEN Some(<<"no secret_access_key provided">>)
    ELSE None

\* a faulty variant of NewCommand: every token, the first included, is passed as an argument
NewCommandAllArgs(tokens) ==
    [program |-> Head(tokens), args |-> tokens, envs |-> EmptyMap]

\* lines 156-159: Command::new(iter.next().unwrap()) and cmd.args(iter)
NewCommand(tokens) ==
    [program |-> Head(tokens), args |-> Tail(tokens), envs |-> EmptyMap]

\* a faulty variant of CredentialEnvs: without a token, Command::env_remove("AWS_SESSION_TOKEN")
CredentialEnvsRemoveToken(envs, credentials) ==
    LET e1 == Insert(envs, "AWS_ACCESS_KEY_ID", credentials.access_key_id)
        e2 == Insert(e1, "AWS_SECRET_ACCESS_KEY", credentials.secret_access_key)
    IN  Insert(e2, "AWS_SESSION_TOKEN", credentials.session_token)

\* lines 162-166: the entries Command::env adds to the command's environment map
CredentialEnvs(envs, credentials) ==
    LET e1 == Insert(envs, "AWS_ACCESS_KEY_ID", credentials.access_key_id)
        e2 == Insert(e1, "AWS_SECRET_ACCESS_KEY", credentials.secret_access_key)
    IN  IF IsSome(credentials.session_token)
        THEN Insert(e2, "AWS_SESSION_TOKEN", credentials.session_token)
        ELSE e2

-----------------------------------------------------------------------------
(* The run *)

Init ==
    /\ args \in [ role : Roles, tag : TagLists, policy : Policies, command : Commands ]
    /\ env \in Environments
    /\ pc = "resolve_role"
    /\ result = "running"
    /\ err = None
    /\ request = [role_arn |-> None, tags |-> <<>>, policy |-> None]
    /\ response = None
    /\ stdout = <<>>
    /\ cmd = None
    /\ child = None
    /\ exit = None
    /\ io = <<>>

\* async_main returns Err(msg): main returns it and the process exits with 1
Fail(msg) ==
    /\ result' = "err"
    /\ err' = Some(msg)
    /\ exit' = Some(1)
    /\ pc' = pc

Goto(next) ==
    /\ pc' = next
    /\ UNCHANGED <<result, err, exit>>

\* lines 79-89: the role is an ARN, or is looked up by name
ResolveRole ==
    /\ result = "running" /\ pc = "resolve_role"
    /\ IF StartsWith(args.role, ArnPrefix)
       THEN /\ request' = [request EXCEPT !.role_arn = Some(args.role)]
            /\ io' = io
            /\ Goto("build_request")
       ELSE /\ io' = Append(io, "iam:GetRole")
            /\ \E out \in GetRoleOutcomes :
                 IF out.error
                 THEN Fail(<<"GetRole failed">>) /\ request' = request
                 ELSE IF out.role = None
                 THEN Fail(<<"role is not provided">>) /\ request' = request
                 ELSE IF Unwrap(out.role) = None
                 THEN Fail(<<"arn is not provided">>) /\ request' = request
                 ELSE /\ request' = [request EXCEPT !.role_arn = Some(Unwrap(Unwrap(out.role)))]
                      /\ Goto("build_request")
    /\ UNCHANGED <<args, env, response, stdout, cmd, child>>

\* lines 91-117: the request builder and the loop over the tags
BuildRequest ==
    /\ result = "running" /\ pc = "build_request"
    /\ LET r == TagLoop(args.tag, 1, <<>>)
       IN  /\ request' = [request EXCEPT !.tags = r.tags]
           /\ IF IsSome(r.error) THEN Fail(Unwrap(r.error)) ELSE Goto("load_policy")
    /\ UNCHANGED <<args, env, response, stdout, cmd, child, io>>

\* lines 119-130: the policy file, parsed as YAML and written as JSON
LoadPolicy ==
    /\ result = "running" /\ pc = "load_policy"
    /\ IF args.policy = None
       THEN /\ Goto("send")
            /\ UNCHANGED <<request, io>>
       ELSE LET path == Unwrap(args.policy)
            IN  /\ io' = Append(io, "fs:open")
                /\ \E out \in PolicyFileOutcomes :
                     CASE out = "open_error" ->
                            Fail(<<"failed to open '", path, "'">>) /\ request' = request
                       [] out = "yaml_error" ->
                            Fail(<<"failed to read '", path, "'">>) /\ request' = request
                       [] out = "json_error" ->
                            Fail(<<"malformed policy">>) /\ request' = request
                       [] OTHER ->
                            /\ request' = [request EXCEPT !.policy = Some(<<"json", path>>)]
                            /\ Goto("send")
    /\ UNCHANGED <<args, env, response, stdout, cmd, child>>

\* line 132: request.send().await?
Send ==
    /\ result = "running" /\ pc = "send"
    /\ io' = Append(io, "sts:AssumeRole")
    /\ \E out \in AssumeRoleOutcomes :
         IF out.error
         THEN Fail(<<"AssumeRole failed">>) /\ response' = response
         ELSE response' = Some(out) /\ Goto("credentials")
    /\ UNCHANGED <<args, env, request, stdout, cmd, child>>

\* lines 134-144: the three let-else
ExtractCredentials ==
    /\ result = "running" /\ pc = "credentials"
    /\ LET missing == MissingCredential(Unwrap(response).credentials)
       IN  IF IsSome(missing) THEN Fail(Unwrap(missing)) ELSE Goto("expiration")
    /\ UNCHANGED <<args, env, request, response, stdout, cmd, child, io>>

\* lines 146-151: print the expiration
ReportExpiration ==
    /\ result = "running" /\ pc = "expiration"
    /\ LET expiration == Unwrap(Unwrap(response).credentials).expiration
       IN  IF expiration = None
           THEN Goto("command") /\ stdout' = stdout
           ELSE LET text == FmtDateTime(Unwrap(expiration))
                IN  IF text = None
                    THEN Fail(<<"date out of range">>) /\ stdout' = stdout
                    ELSE /\ stdout' = Append(stdout, <<"Credentials will expire at ", Unwrap(text)>>)
                         /\ Goto("command")
    /\ UNCHANGED <<args, env, request, response, cmd, child, io>>

\* lines 153-160: the command given, or $SHELL
DetermineCommand ==
    /\ result = "running" /\ pc = "command"
    /\ IF args.command = <<>>
       THEN /\ io' = Append(io, "env:SHELL")
            /\ IF env["SHELL"] = None
               THEN Fail(<<"failed to get environment variable 'SHELL'">>) /\ cmd' = cmd
               ELSE /\ cmd' = Some([program |-> Unwrap(env["SHELL"]), args |-> <<>>,
                                    envs |-> EmptyMap])
                    /\ Goto("inject_env")
       ELSE /\ io' = io
            /\ cmd' = Some(NewCommand(args.command))
            /\ Goto("inject_env")
    /\ UNCHANGED <<args, env, request, response, stdout, child>>

\* lines 162-166: Command::env for the key pair, and for the token if there is one
InjectEnv ==
    /\ result = "running" /\ pc = "inject_env"
    /\ LET credentials == Unwrap(Unwrap(response).credentials)
           c == Unwrap(cmd)
       IN  cmd' = Some([c EXCEPT !.envs = CredentialEnvs(c.envs, credentials)])
    /\ Goto("spawn")
    /\ UNCHANGED <<args, env, request, response, stdout, child, io>>

\* line 168: cmd.spawn()?
Spawn ==
    /\ result = "running" /\ pc = "spawn"
    /\ io' = Append(io, "spawn")
    /\ \E ok \in BOOLEAN :
         IF ok
         THEN /\ child' = Some([program |-> Unwrap(cmd).program, args |-> Unwrap(cmd).args,
                                env |-> ChildEnv(env, Unwrap(cmd).envs), code |-> None])
              /\ Goto("wait")
         ELSE Fail(<<"spawn failed">>) /\ child' = child
    /\ UNCHANGED <<args, env, request, response, stdout, cmd>>

\* lines 168-170: .wait().await?; Ok(()), and main returns it
Wait ==
    /\ result = "running" /\ pc = "wait"
    /\ io' = Append(io, "wait")
    /\ \/ \E code \in ExitCodes :
            /\ child' = Some([Unwrap(child) EXCEPT !.code = Some(code)])
            /\ result' = "ok"
            /\ exit' = Some(0)
            /\ pc' = "done"
            /\ err' = err
       \/ Fail(<<"wait failed">>) /\ child' = child
    /\ UNCHANGED <<args, env, request, response, stdout, cmd>>

Next ==
    \/ ResolveRole
    \/ BuildRequest
    \/ LoadPolicy
    \/ Send
    \/ ExtractCredentials
    \/ ReportExpiration
    \/ DetermineCommand
    \/ InjectEnv
    \/ Spawn
    \/ Wait

Spec == Init /\ [][Next]_vars

-----------------------------------------------------------------------------
(* Properties *)

\* the number of calls of one kind made so far
Calls(x) == Cardinality({ i \in DOMAIN io : io[i] = x })

\* async_main returned an error from the statement at
Failed(at) == result = "err" /\ pc = at

\* the role argument begins with the four characters a r n :
HasArnPrefix(s) == Len(s) >= 4 /\ SubSeq(s, 1, 4) = <<"a","r","n",":">>

\* the tag has no = in it
NoEq(t) == \A k \in 1..Len(t) : t[k] # "="

\* the credentials of the response carry both mandatory fields
Complete(creds) ==
    /\ IsSome(creds)
    /\ IsSome(Unwrap(creds).access_key_id)
    /\ IsSome(Unwrap(creds).secret_access_key)

AfterCommand == { "inject_env", "spawn", "wait", "done" }

\* C1: whenever the child was spawned and its wait completed, the exit code of
\* this process equals the exit code of the child.
C1_ExitStatusPropagated ==
    result = "ok" => exit = Unwrap(child).code

C3_RoleResolution ==
    /\ HasArnPrefix(args.role) =>
          /\ Calls("iam:GetRole") = 0
          /\ pc # "resolve_role" => request.role_arn = Some(args.role)
    /\ ~HasArnPrefix(args.role) =>
          /\ Calls("iam:GetRole") = (IF pc = "resolve_role" /\ result = "running" THEN 0 ELSE 1)
          /\ \A i, j \in DOMAIN io :
                io[i] = "iam:GetRole" /\ io[j] = "sts:AssumeRole" => i < j
          /\ Calls("sts:AssumeRole") > 0 => Calls("iam:GetRole") = 1

C3_Witness ==
    /\ ~HasArnPrefix(args.role)
    /\ Calls("iam:GetRole") = 1
    /\ Calls("sts:AssumeRole") = 1
    /\ request.role_arn = Some(ResolvedArn)

\* C4: AssumeRole is called at most once, exactly once when the call itself
\* failed (no retry), and not at all in a run where role resolution fails, a
\* tag has no =, or the policy file cannot be opened, parsed or serialized.
C4_AssumeRoleAtMostOnce ==
    /\ Calls("sts:AssumeRole") <= 1
    /\ Failed("send") => Calls("sts:AssumeRole") = 1
    /\ (Failed("resolve_role") \/ Failed("build_request") \/ Failed("load_policy")) =>
          Calls("sts:AssumeRole") = 0
    /\ (\E i \in DOMAIN args.tag : NoEq(args.tag[i])) => Calls("sts:AssumeRole") = 0

C4_Witness ==
    /\ Failed("resolve_role")
    /\ err = Some(<<"arn is not provided">>)
    /\ Calls("iam:GetRole") = 1
    /\ Calls("sts:AssumeRole") = 0

\* C5: a spawn is attempted only after an AssumeRole response whose credentials
\* carry an access key id and a secret access key; when the credentials or one
\* of the two is missing the run stops there with the error that names it and
\* nothing is spawned; a missing session token or expiration never fails the run.
C5_SpawnNeedsCredentials ==
    /\ Calls("spawn") > 0 =>
          /\ IsSome(response) /\ Complete(Unwrap(response).credentials)
          /\ \A i, j \in DOMAIN io :
                io[i] = "sts:AssumeRole" /\ io[j] = "spawn" => i < j
    /\ IsSome(response) =>
          LET creds == Unwrap(response).credentials
          IN  /\ ~Complete(creds) => pc = "credentials" /\ Calls("spawn") = 0
              /\ Failed("credentials") =>
                    err = Some(IF creds = None
                               THEN <<"no credentials provided">>
                               ELSE IF Unwrap(creds).access_key_id = None
                               THEN <<"no access_key_id provided">>
                               ELSE <<"no secret_access_key provided">>)
              /\ Complete(creds) =>
                    /\ ~Failed("credentials")
                    /\ ~Failed("inject_env")
                    /\ Unwrap(creds).expiration = None => ~Failed("expiration")

C5_Witness ==
    /\ Failed("credentials")
    /\ IsSome(Unwrap(response).credentials)
    /\ IsSome(Unwrap(Unwrap(response).credentials).access_key_id)
    /\ err = Some(<<"no secret_access_key provided">>)
    /\ Calls("spawn") = 0

\* C6: with no command and SHELL unset the run never gets past choosing the
\* command and spawns nothing, and its error there comes after a successful
\* AssumeRole call with complete credentials; with a command, SHELL is never
\* read and the command is the first token with the other tokens as arguments.
C6_CommandOrShell ==
    /\ Failed("command") =>
          /\ args.command = <<>> /\ env["SHELL"] = None
          /\ err = Some(<<"failed to get environment variable 'SHELL'">>)
          /\ Calls("spawn") = 0
          /\ Calls("sts:AssumeRole") = 1
          /\ IsSome(response) /\ Complete(Unwrap(response).credentials)
    /\ (args.command = <<>> /\ env["SHELL"] = None) =>
          /\ pc \notin AfterCommand
          /\ cmd = None
          /\ Calls("spawn") = 0
    /\ args.command # <<>> =>
          /\ Calls("env:SHELL") = 0
          /\ ~Failed("command")
          /\ pc \in AfterCommand =>
                /\ IsSome(cmd)
                /\ Unwrap(cmd).program = args.command[1]
                /\ Unwrap(cmd).args = [k \in 1..(Len(args.command) - 1) |-> args.command[k + 1]]
          /\ IsSome(child) =>
                /\ Unwrap(child).program = args.command[1]
                /\ Unwrap(child).args = [k \in 1..(Len(args.command) - 1) |-> args.command[k + 1]]

C6_Witness ==
    /\ Failed("command")
    /\ args.command = <<>>
    /\ env["SHELL"] = None
    /\ io[Len(io)] = "env:SHELL"
    /\ Calls("sts:AssumeRole") = 1

\* C7: every tag is split at its first =: the key has no = in it and key, =,
\* value put together give the tag back; a tag without = fails the run with an
\* error naming the first such tag in list order, and no AssumeRole call is made.
C7_TagsSplitAtFirstEq ==
    /\ pc \notin { "resolve_role", "build_request" } =>
          /\ Len(request.tags) = Len(args.tag)
          /\ \A i \in DOMAIN args.tag :
                /\ NoEq(request.tags[i].key)
                /\ request.tags[i].key \o <<"=">> \o request.tags[i].value = args.tag[i]
    /\ Failed("build_request") =>
          \E i \in DOMAIN args.tag :
             /\ NoEq(args.tag[i])
             /\ \A j \in 1..(i - 1) : ~NoEq(args.tag[j])
             /\ err = Some(<<"illegal tag: '">> \o args.tag[i] \o <<"'">>)
    /\ (\E i \in DOMAIN args.tag : NoEq(args.tag[i])) =>
          /\ pc \in { "resolve_role", "build_request" }
          /\ Calls("sts:AssumeRole") = 0

C7_Witness ==
    /\ Calls("sts:AssumeRole") = 1
    /\ \E i \in DOMAIN args.tag :
          /\ args.tag[i] = <<"a","=","b","=","c">>
          /\ request.tags[i] = [key |-> <<"a">>, value |-> <<"b","=","c">>]

\* C8 (state part): in the child's environment the two key variables are the
\* credentials' values, the token variable is written only when the credentials
\* have a token, and every other variable is the parent's, unchanged.
ChildEnvIsOverlay ==
    IsSome(child) =>
        LET ce == Unwrap(child).env
            creds == Unwrap(Unwrap(response).credentials)
        IN  /\ ce["AWS_ACCESS_KEY_ID"] = creds.access_key_id
            /\ ce["AWS_SECRET_ACCESS_KEY"] = creds.secret_access_key
            /\ IsSome(creds.session_token) => ce["AWS_SESSION_TOKEN"] = creds.session_token
            /\ ("AWS_SESSION_TOKEN" \in DOMAIN Unwrap(cmd).envs) => IsSome(creds.session_token)
            /\ \A v \in EnvVars \ { "AWS_ACCESS_KEY_ID", "AWS_SECRET_ACCESS_KEY", "AWS_SESSION_TOKEN" } :
                  ce[v] = env[v]

\* C8: the credentials are an overlay on the child's environment only
\* (ChildEnvIsOverlay in every state), and no step of the run changes the
\* environment of the parent process.
C8_EnvOverlayScopedToChild ==
    []ChildEnvIsOverlay /\ [][env' = env]_vars

C8_Witness ==
    /\ IsSome(child)
    /\ Unwrap(child).env["AWS_ACCESS_KEY_ID"] = Some("AKID")
    /\ env["AWS_ACCESS_KEY_ID"] = Some("old-akid")
    /\ Unwrap(child).env["HOME"] = Some("/root")
    /\ Unwrap(child).env["SHELL"] = Some("/bin/sh")
    /\ IsSome(Unwrap(Unwrap(response).credentials).session_token)

\* C9: for credentials with both mandatory fields, the step that reports the
\* expiration never ends the run, whatever the expiration is.
C9_ExpirationNeverGates ==
    ~Failed("expiration")

\* C10: without a session token in the credentials the command's environment
\* map has no entry for AWS_SESSION_TOKEN (neither set nor removed) and the
\* child sees the parent's value; with one, the child sees the credentials' token.
C10_SessionTokenInherited ==
    /\ (pc \in { "spawn", "wait", "done" } /\ Unwrap(Unwrap(response).credentials).session_token = None) =>
          "AWS_SESSION_TOKEN" \notin DOMAIN Unwrap(cmd).envs
    /\ IsSome(child) =>
          LET token == Unwrap(Unwrap(response).credentials).session_token
          IN  Unwrap(child).env["AWS_SESSION_TOKEN"] =
                 (IF IsSome(token) THEN token ELSE env["AWS_SESSION_TOKEN"])

C10_Witness ==
    /\ IsSome(child)
    /\ Unwrap(Unwrap(response).credentials).session_token = None
    /\ env["AWS_SESSION_TOKEN"] = Some("stale-token")
    /\ Unwrap(child).env["AWS_SESSION_TOKEN"] = Some("stale-token")
    /\ Unwrap(child).env["AWS_ACCESS_KEY_ID"] = Some("AKID")

====
